---- MODULE Spec2Model ----
(***************************************************************************)
(* A model of android/gyp/process_resources.py: the R.java merge           *)
(* (CreateRJavaFiles), the R.java generator and its runtime patch routine  *)
(* (_CreateExtraRJavaFile), the image crunch (CrunchDirectory), the        *)
(* layered resource zip (ZipResources), the archive combination            *)
(* (CombineZips) and the pipeline that sequences them (_OnStaleMd5).       *)
(***************************************************************************)
EXTENDS Integers, Sequences, FiniteSets, TLC

(***************************************************************************)
(* Bounds of the model.                                                    *)
(***************************************************************************)
MaxPkgs == 2
MaxEntries == 3
MaxSize == 2
MaxStderrLines == 2
MaxDirs == 2
MaxZips == 2
MaxInputDirs == 2
MaxDeps == 2

VARIABLES
  \* CreateRJavaFiles
  main_r_txt_file,       \* the lines of the main R.txt
  packages,              \* the package names, in list order
  r_txt_files,           \* per position, the lines of that package's R.txt
  all_resources,         \* (resource_type, name) -> entry
  resources_by_package,  \* package -> resource_type -> list of entries
  mPc,                   \* "idle", "start", "loop", "write", "done", "error"
  mIdx,                  \* position of the zip(packages, r_txt_files) loop
  mErr,                  \* "none", "parse", "twice", "key"
  r_java_files,          \* package -> what its R.java was rendered from
  \* _CreateExtraRJavaFile and the onResourcesLoaded routine it renders
  gResources,            \* resources_by_type: resource_type -> entries
  gShared,               \* shared_resources
  gFields,               \* (resource_type, name) -> the field's 32-bit words
  gFinal,                \* the fields are declared final
  gRoutine,              \* the statements of onResourcesLoaded, in order
  gPackageId,            \* the packageId onResourcesLoaded is called with
  gIp,                   \* the next statement of the routine
  gPc,                   \* "idle", "render", "generated", "running", "done"
  \* CrunchDirectory
  cInput,                \* input_dir: file name -> size of the original
  cCrunched,             \* file name -> size of what aapt crunch wrote
  cOutput,               \* output_dir: file name -> [size, bytes]
  cReturncode,           \* aapt's exit status
  cStderr,               \* aapt's error stream, a list of lines
  cPending,              \* the files of output_dir the walk has not reached
  cPc,                   \* "idle", "start", "walk", "done", "error"
  cErr,                  \* "none", "CalledProcessError", "Unexpected file"
  \* ZipResources
  resource_dirs,         \* per position, the files of that directory
  zIdx,                  \* the position of the directory being walked
  zPending,              \* the files of it the walk has not reached
  files_to_zip,          \* archive_path -> path
  zArchive,              \* the entries DoZip wrote: <<archive_path, path>>
  zPc,                   \* "idle", "walk", "done"
  \* CombineZips
  zip_files,             \* the paths of the archives, in list order
  kContents,             \* path of an archive -> the names it holds
  kOutput,               \* the entries written: [name, from]
  kIdx,                  \* the position MergeZips has reached
  kPc,                   \* "idle", "merge", "done"
  \* _OnStaleMd5
  options,               \* the options the run reads
  pPc,                   \* the stage the run is at, "done" or "error"
  pLoop,                 \* the position of the stage's loop
  pFailedAt,             \* the stage whose exception ended the run
  pWritten,              \* the declared output paths written so far
  pTemp,                 \* temp_dir exists
  dep_subdirs,           \* the directories the dependency zips went to
  zip_resource_dirs,     \* the directories ZipResources is given
  pCrunched,             \* the crunch directories CrunchDirectory filled
  pDirFiles,             \* the files ZipResources found, per directory
  pArchive               \* the entries of the resource zip

mergeVars == <<main_r_txt_file, packages, r_txt_files, all_resources,
               resources_by_package, mPc, mIdx, mErr, r_java_files>>

genVars == <<gResources, gShared, gFields, gFinal, gRoutine, gPackageId,
             gIp, gPc>>

crunchVars == <<cInput, cCrunched, cOutput, cReturncode, cStderr, cPending,
                cPc, cErr>>

zipVars == <<resource_dirs, zIdx, zPending, files_to_zip, zArchive, zPc>>

combineVars == <<zip_files, kContents, kOutput, kIdx, kPc>>

pipeVars == <<options, pPc, pLoop, pFailedAt, pWritten, pTemp, dep_subdirs,
              zip_resource_dirs, pCrunched, pDirFiles, pArchive>>

vars == <<mergeVars, genVars, crunchVars, zipVars, combineVars, pipeVars>>

notMerge == <<genVars, crunchVars, zipVars, combineVars, pipeVars>>
notGen == <<mergeVars, crunchVars, zipVars, combineVars, pipeVars>>
notCrunch == <<mergeVars, genVars, zipVars, combineVars, pipeVars>>
notZip == <<mergeVars, genVars, crunchVars, combineVars, pipeVars>>
notCombine == <<mergeVars, genVars, crunchVars, zipVars, pipeVars>>
notPipe == <<mergeVars, genVars, crunchVars, zipVars, combineVars>>

Range(s) == {s[i] : i \in DOMAIN s}

EmptyMap == <<>>

(***************************************************************************)
(* The parts of the program that a run does not exercise stay idle.        *)
(***************************************************************************)
MergeIdle ==
  /\ main_r_txt_file = <<>> /\ packages = <<>> /\ r_txt_files = <<>>
  /\ all_resources = EmptyMap /\ resources_by_package = EmptyMap
  /\ mPc = "idle" /\ mIdx = 0 /\ mErr = "none" /\ r_java_files = EmptyMap

GenIdle ==
  /\ gResources = EmptyMap /\ gShared = FALSE /\ gFields = EmptyMap
  /\ gFinal = FALSE /\ gRoutine = <<>> /\ gPackageId = 0 /\ gIp = 0
  /\ gPc = "idle"

CrunchIdle ==
  /\ cInput = EmptyMap /\ cCrunched = EmptyMap /\ cOutput = EmptyMap
  /\ cReturncode = 0 /\ cStderr = <<>> /\ cPending = {}
  /\ cPc = "idle" /\ cErr = "none"

ZipIdle ==
  /\ resource_dirs = <<>> /\ zIdx = 0 /\ zPending = {}
  /\ files_to_zip = EmptyMap /\ zArchive = {} /\ zPc = "idle"

CombineIdle ==
  /\ zip_files = <<>> /\ kContents = EmptyMap /\ kOutput = {}
  /\ kIdx = 0 /\ kPc = "idle"

PipeIdle ==
  /\ options = EmptyMap /\ pPc = "idle" /\ pLoop = 0 /\ pFailedAt = "none"
  /\ pWritten = {} /\ pTemp = FALSE /\ dep_subdirs = <<>>
  /\ zip_resource_dirs = <<>> /\ pCrunched = {}
  /\ pDirFiles = <<>> /\ pArchive = {}

OthersIdleForMerge ==
  GenIdle /\ CrunchIdle /\ ZipIdle /\ CombineIdle /\ PipeIdle
OthersIdleForGen ==
  MergeIdle /\ CrunchIdle /\ ZipIdle /\ CombineIdle /\ PipeIdle
OthersIdleForCrunch ==
  MergeIdle /\ GenIdle /\ ZipIdle /\ CombineIdle /\ PipeIdle
OthersIdleForZip ==
  MergeIdle /\ GenIdle /\ CrunchIdle /\ CombineIdle /\ PipeIdle
OthersIdleForCombine ==
  MergeIdle /\ GenIdle /\ CrunchIdle /\ ZipIdle /\ PipeIdle
OthersIdleForPipe ==
  MergeIdle /\ GenIdle /\ CrunchIdle /\ ZipIdle /\ CombineIdle

(***************************************************************************)
(* R.txt lines and entries.                                                *)
(***************************************************************************)
TextSymbolsEntry(java_type, resource_type, name, value) ==
  [java_type |-> java_type, resource_type |-> resource_type,
   name |-> name, value |-> value]

\* A line of an R.txt file: one that the regular expression of
\* _ParseTextSymbolsFile matches, with its four groups, or one it does not.
GoodLine(java_type, resource_type, name, value) ==
  [matches |-> TRUE, java_type |-> java_type, resource_type |-> resource_type,
   name |-> name, value |-> value]

BadLine ==
  [matches |-> FALSE, java_type |-> "", resource_type |-> "", name |-> "",
   value |-> ""]

\* _ParseTextSymbolsFile: an exception on the first line that does not match,
\* otherwise the entries in file order.
ParseFails(lines) == \E i \in DOMAIN lines : ~lines[i].matches

_ParseTextSymbolsFile(lines) ==
  [i \in DOMAIN lines |->
     TextSymbolsEntry(lines[i].java_type, lines[i].resource_type,
                      lines[i].name, lines[i].value)]

KeyOf(entry) == <<entry.resource_type, entry.name>>

(***************************************************************************)
(* The inputs the merge is run on.                                         *)
(***************************************************************************)
PackageNames == {"org.p", "org.q"}

MainTables ==
  { <<>>,
    << GoodLine("int", "id", "a", "0x7f010001"),
       GoodLine("int", "id", "b", "0x7f010002"),
       GoodLine("int", "string", "a", "0x7f020001") >>,
    << GoodLine("int", "id", "a", "0x7f010001"),
       GoodLine("int", "id", "a", "0x7f010009") >>,
    << GoodLine("int", "id", "a", "0x7f010001"), BadLine >> }

\* The sub-R.txt files carry placeholder values.
Stale(resource_type, name) == GoodLine("int", resource_type, name, "0x0")

PackageTables ==
  { <<>>,
    << Stale("id", "a") >>,
    << Stale("id", "b"), Stale("id", "a") >>,
    << Stale("id", "a"), Stale("string", "a") >>,
    << Stale("string", "a"), Stale("id", "a"), Stale("id", "b") >>,
    << Stale("id", "a"), BadLine >> }

SeqsUpTo(S, n) == UNION {[1..k -> S] : k \in 0..n}

(***************************************************************************)
(* CreateRJavaFiles.                                                       *)
(***************************************************************************)
\* all_resources[(entry.resource_type, entry.name)] = entry, in file order.
RECURSIVE BuildAllResources(_, _)
BuildAllResources(all, entries) ==
  IF entries = <<>> THEN all
  ELSE BuildAllResources(
         (KeyOf(Head(entries)) :> Head(entries)) @@ all, Tail(entries))

\* all_resources[(entry.resource_type, entry.name)]: a KeyError when absent.
LookupOwnEntry(all, entry) ==
  [found |-> KeyOf(entry) \in DOMAIN all, entry |-> entry]

LookupZeroFill(all, entry) ==
  IF KeyOf(entry) \in DOMAIN all
    THEN [found |-> TRUE, entry |-> all[KeyOf(entry)]]
    ELSE [found |-> TRUE,
          entry |-> TextSymbolsEntry(entry.java_type, entry.resource_type,
                                     entry.name, "0")]

Lookup(all, entry) ==
  IF KeyOf(entry) \in DOMAIN all
    THEN [found |-> TRUE, entry |-> all[KeyOf(entry)]]
    ELSE [found |-> FALSE, entry |-> entry]

\* resources_by_package[package], on a defaultdict: the access of line 167
\* creates the package's (empty) map.
TouchPackageLazily(by_package, package) == by_package

TouchPackage(by_package, package) ==
  IF package \in DOMAIN by_package THEN by_package
  ELSE (package :> EmptyMap) @@ by_package

\* resources_by_type[entry.resource_type].append(entry): both levels are
\* defaultdicts, and resources_by_type is the map held for the package.
AppendEntry(by_package, package, entry) ==
  LET by_type == IF package \in DOMAIN by_package
                   THEN by_package[package] ELSE EmptyMap
      sofar == IF entry.resource_type \in DOMAIN by_type
                 THEN by_type[entry.resource_type] ELSE <<>>
  IN  (package :> ((entry.resource_type :> Append(sofar, entry)) @@ by_type))
        @@ by_package

\* The loop of lines 171-173 over a package's entries: it stops at the first
\* KeyError.
RECURSIVE ResolveEntries(_, _, _, _)
ResolveEntries(all, by_package, package, entries) ==
  IF entries = <<>> THEN [err |-> "none", by_package |-> by_package]
  ELSE LET r == Lookup(all, Head(entries))
       IN  IF ~r.found THEN [err |-> "key", by_package |-> by_package]
           ELSE ResolveEntries(all, AppendEntry(by_package, package, r.entry),
                               package, Tail(entries))

InitMerge ==
  /\ OthersIdleForMerge
  /\ main_r_txt_file \in MainTables
  /\ packages \in SeqsUpTo(PackageNames, MaxPkgs)
  /\ r_txt_files \in [DOMAIN packages -> PackageTables]
  /\ all_resources = EmptyMap
  /\ resources_by_package = EmptyMap
  /\ mPc = "start" /\ mIdx = 0 /\ mErr = "none"
  /\ r_java_files = EmptyMap

\* Lines 153-155: the main R.txt is parsed and indexed.
ParseMain ==
  /\ mPc = "start"
  /\ IF ParseFails(main_r_txt_file)
       THEN /\ mPc' = "error" /\ mErr' = "parse"
            /\ UNCHANGED <<all_resources, mIdx>>
       ELSE /\ all_resources' =
                 BuildAllResources(EmptyMap,
                                   _ParseTextSymbolsFile(main_r_txt_file))
            /\ mPc' = "loop" /\ mIdx' = 1
            /\ UNCHANGED mErr
  /\ UNCHANGED <<main_r_txt_file, packages, r_txt_files,
                 resources_by_package, r_java_files>>
  /\ UNCHANGED notMerge

\* Lines 162-173: one iteration of the loop over zip(packages, r_txt_files).
MergePackage ==
  /\ mPc = "loop" /\ mIdx <= Len(packages)
  /\ LET package == packages[mIdx]
         touched == TouchPackage(resources_by_package, package)
         r == ResolveEntries(all_resources, touched, package,
                             _ParseTextSymbolsFile(r_txt_files[mIdx]))
     IN  IF package \in DOMAIN resources_by_package
           THEN /\ mPc' = "error" /\ mErr' = "twice"
                /\ UNCHANGED <<resources_by_package, mIdx>>
         ELSE IF ParseFails(r_txt_files[mIdx])
           THEN /\ mPc' = "error" /\ mErr' = "parse"
                /\ resources_by_package' = touched
                /\ UNCHANGED mIdx
         ELSE IF r.err # "none"
           THEN /\ mPc' = "error" /\ mErr' = r.err
                /\ resources_by_package' = r.by_package
                /\ UNCHANGED mIdx
         ELSE /\ resources_by_package' = r.by_package
              /\ mIdx' = mIdx + 1
              /\ UNCHANGED <<mPc, mErr>>
  /\ UNCHANGED <<main_r_txt_file, packages, r_txt_files, all_resources,
                 r_java_files>>
  /\ UNCHANGED notMerge

\* The loop of lines 162-173 is over: the write loop of line 175 starts.
MergeLoopDone ==
  /\ mPc = "loop" /\ mIdx > Len(packages)
  /\ mPc' = "write"
  /\ UNCHANGED <<main_r_txt_file, packages, r_txt_files, all_resources,
                 resources_by_package, mIdx, mErr, r_java_files>>
  /\ UNCHANGED notMerge

\* Lines 175-182: one R.java is rendered and written, in the dict's order.
WriteRJava ==
  /\ mPc = "write"
  /\ \E package \in DOMAIN resources_by_package \ DOMAIN r_java_files :
       r_java_files' =
         (package :> resources_by_package[package]) @@ r_java_files
  /\ UNCHANGED <<main_r_txt_file, packages, r_txt_files, all_resources,
                 resources_by_package, mPc, mIdx, mErr>>
  /\ UNCHANGED notMerge

MergeReturn ==
  /\ mPc = "write"
  /\ DOMAIN resources_by_package \subseteq DOMAIN r_java_files
  /\ mPc' = "done"
  /\ UNCHANGED <<main_r_txt_file, packages, r_txt_files, all_resources,
                 resources_by_package, mIdx, mErr, r_java_files>>
  /\ UNCHANGED notMerge

NextMerge ==
  \/ ParseMain
  \/ MergePackage
  \/ MergeLoopDone
  \/ WriteRJava
  \/ MergeReturn

SpecMerge == InitMerge /\ [][NextMerge]_vars

(***************************************************************************)
(* The canonical table, read off the main R.txt itself: the entry of a     *)
(* key is the last line of the file that carries the key.                  *)
(***************************************************************************)
CanonKeys ==
  {KeyOf(main_r_txt_file[i]) :
     i \in {k \in DOMAIN main_r_txt_file : main_r_txt_file[k].matches}}

CanonEntry(key) ==
  LET i == CHOOSE k \in DOMAIN main_r_txt_file :
             /\ KeyOf(main_r_txt_file[k]) = key
             /\ \A m \in DOMAIN main_r_txt_file :
                  m > k => KeyOf(main_r_txt_file[m]) # key
  IN  TextSymbolsEntry(main_r_txt_file[i].java_type,
                       main_r_txt_file[i].resource_type,
                       main_r_txt_file[i].name, main_r_txt_file[i].value)

\* What a package's R.txt asks for: per resource_type, the canonical entries
\* of the keys the file lists with that type, in the file's order.
ExpectedEntries(lines, resource_type) ==
  LET listed == SelectSeq(lines, LAMBDA l : l.resource_type = resource_type)
  IN  [i \in DOMAIN listed |-> CanonEntry(KeyOf(listed[i]))]

ExpectedByType(lines) ==
  [t \in {lines[i].resource_type : i \in DOMAIN lines} |->
     ExpectedEntries(lines, t)]

ReferencesAbsentKey(lines) ==
  \E j \in DOMAIN lines : lines[j].matches /\ KeyOf(lines[j]) \notin CanonKeys

NoRJavaWritten == r_java_files = EmptyMap

\* The merge loop has ended or will end without an exception.
MergeSucceeds ==
  \/ mPc \in {"write", "done"}
  \/ mPc = "loop" /\ mIdx > Len(packages)

\* C1: once the merge loop is through, every package of the list holds
\* exactly the canonical entries of the keys its own R.txt lists, grouped by
\* resource_type in the file's order, whatever the other packages and the
\* package's position are; each R.java is rendered from just that.
C1_EntriesFromCanonicalTable ==
  mPc \in {"write", "done"} =>
    /\ DOMAIN resources_by_package = Range(packages)
    /\ \A i \in DOMAIN packages :
         resources_by_package[packages[i]] = ExpectedByType(r_txt_files[i])
    /\ \A p \in DOMAIN r_java_files :
         \E i \in DOMAIN packages :
           /\ packages[i] = p
           /\ r_java_files[p] = ExpectedByType(r_txt_files[i])
    /\ (mPc = "done" => DOMAIN r_java_files = Range(packages))

C1_Witness ==
  /\ mPc = "done"
  /\ Len(packages) = 2
  /\ \E p \in DOMAIN r_java_files, q \in DOMAIN r_java_files :
       /\ p # q
       /\ DOMAIN r_java_files[p] = {"id", "string"}
       /\ Len(r_java_files[p]["id"]) = 2
       /\ r_java_files[p]["id"][1].value = "0x7f010001"
       /\ "id" \in DOMAIN r_java_files[q]
       /\ r_java_files[q]["id"][1].name = "b"
       /\ r_java_files[q]["id"][1].value = "0x7f010002"

\* C2: when a package's R.txt lists a key the main R.txt does not have, the
\* call never gets to the write loop: it ends in an error, no R.java is
\* written, and nothing but canonical entries was ever appended.
C2_AbsentKeyIsFatal ==
  (\E i \in DOMAIN packages : ReferencesAbsentKey(r_txt_files[i])) =>
    /\ ~MergeSucceeds
    /\ NoRJavaWritten
    /\ \A p \in DOMAIN resources_by_package :
         \A t \in DOMAIN resources_by_package[p] :
           \A k \in DOMAIN resources_by_package[p][t] :
             LET e == resources_by_package[p][t][k]
             IN  KeyOf(e) \in CanonKeys /\ e = CanonEntry(KeyOf(e))

C2_Witness ==
  /\ mPc = "error" /\ mErr = "key"
  /\ mIdx = 2
  /\ ReferencesAbsentKey(r_txt_files[2])
  /\ ~ReferencesAbsentKey(r_txt_files[1])
  /\ "id" \in DOMAIN resources_by_package[packages[2]]
  /\ NoRJavaWritten

PackageRepeats ==
  \E i \in DOMAIN packages, j \in DOMAIN packages :
    i < j /\ packages[i] = packages[j]

\* The first position that holds a package name an earlier position holds.
SecondOccurrence ==
  CHOOSE j \in DOMAIN packages :
    /\ \E i \in 1..(j - 1) : packages[i] = packages[j]
    /\ \A m \in 1..(j - 1) :
         \A i \in 1..(m - 1) : packages[i] # packages[m]

\* An R.txt read before position j does not parse or lists an absent key.
FailsBefore(j) ==
  \/ ParseFails(main_r_txt_file)
  \/ \E i \in 1..(j - 1) :
       ParseFails(r_txt_files[i]) \/ ReferencesAbsentKey(r_txt_files[i])

\* C3 as stated: a repeated package name makes the call fail with the
\* 'appeared twice' error, before any R.java is written.
C3_AppearedTwiceAlways ==
  PackageRepeats =>
    /\ ~MergeSucceeds
    /\ NoRJavaWritten
    /\ (mPc = "error" => mErr = "twice")

\* C3 (amended): a repeated package name makes the call fail before any
\* R.java is written, also when the first occurrence's table is empty; the
\* error is 'appeared twice' unless an R.txt read before the second
\* occurrence fails first, and then it is that file's error.
C3_RepeatedPackageIsFatal ==
  PackageRepeats =>
    /\ ~MergeSucceeds
    /\ NoRJavaWritten
    /\ (mPc = "error" =>
          IF FailsBefore(SecondOccurrence)
            THEN mErr \in {"parse", "key"}
            ELSE mErr = "twice")

C3_Witness ==
  /\ mPc = "error" /\ mErr = "twice"
  /\ mIdx = 2
  /\ r_txt_files[1] = <<>>
  /\ packages[1] = packages[2]
  /\ NoRJavaWritten

(***************************************************************************)
(* 32-bit words.  A Java int is kept as its bit pattern, split into the    *)
(* top byte (bits 24..31) and the low 24 bits, so that every number stays  *)
(* within the checker's integers: the word hi * 2^24 + lo.                 *)
(***************************************************************************)
Word(hi, lo) == [hi |-> hi, lo |-> lo]

RECURSIVE BitAnd(_, _)
BitAnd(a, b) ==
  IF a = 0 \/ b = 0 THEN 0
  ELSE (a % 2) * (b % 2) + 2 * BitAnd(a \div 2, b \div 2)

RECURSIVE BitOr(_, _)
BitOr(a, b) ==
  IF a = 0 THEN b
  ELSE IF b = 0 THEN a
  ELSE (IF a % 2 = 1 \/ b % 2 = 1 THEN 1 ELSE 0)
         + 2 * BitOr(a \div 2, b \div 2)

AndWord(x, y) == Word(BitAnd(x.hi, y.hi), BitAnd(x.lo, y.lo))

OrWord(x, y) == Word(BitOr(x.hi, y.hi), BitOr(x.lo, y.lo))

\* n << 24 on a 32-bit int: the low byte of n becomes the top byte.
ShiftLeft24(n) == Word(n % 256, 0)

\* The literal 0x00ffffff.
Mask00ffffff == Word(0, 16777215)

\* create_id: X = (X & 0x00ffffff) | (packageId << 24);
PatchIdUnmasked(x, packageId) == OrWord(x, ShiftLeft24(packageId))

PatchId(x, packageId) ==
  OrWord(AndWord(x, Mask00ffffff), ShiftLeft24(packageId))

\* create_id_arr: X[i] = (X[i] & 0x00ffffff) | (packageId << 24);
PatchIdArr(x, packageId) ==
  OrWord(AndWord(x, Mask00ffffff), ShiftLeft24(packageId))

(***************************************************************************)
(* _CreateExtraRJavaFile: the template and what it renders.                *)
(***************************************************************************)
\* The entries the generator is run on.  A value is the list of the words of
\* its literal: one word for an int, the elements for an int[].
GenEntries ==
  { TextSymbolsEntry("int", "id", "a", << Word(127, 65537) >>),
    TextSymbolsEntry("int", "string", "b", << Word(255, 16777215) >>),
    TextSymbolsEntry("int[]", "array", "c",
                     << Word(127, 196609), Word(1, 65538) >>),
    TextSymbolsEntry("int[]", "styleable", "d",
                     << Word(127, 65537), Word(127, 65538) >>),
    TextSymbolsEntry("int", "styleable", "d_e", << Word(0, 1) >>) }

PackageIds == {0, 2, 128, 255}

\* sorted(resources_by_type): the resource types in string order.
TypesInOrder == << "array", "id", "string", "styleable" >>

Sorted(types) == SelectSeq(TypesInOrder, LAMBDA t : t \in types)

RECURSIVE Concat(_)
Concat(seqs) ==
  IF seqs = <<>> THEN <<>> ELSE Head(seqs) \o Concat(Tail(seqs))

Statement(kind, e) ==
  [kind |-> kind, resource_type |-> e.resource_type, name |-> e.name]

\* Line 228: the condition under which an entry gets a create_id statement.
ScalarIsPatchedAnyType(resource_type, e) == e.java_type # "int[]"

ScalarIsPatched(resource_type, e) ==
  resource_type # "styleable" /\ e.java_type # "int[]"

\* Line 233: the condition under which an entry gets a create_id_arr loop.
ArrayIsPatched(resource_type, e) == e.java_type = "int[]"

\* Lines 227-238, for one resource_type: the create_id statements of its
\* entries, then the loops of its entries.
StatementsOfType(resources, resource_type) ==
  LET es == resources[resource_type]
      ids == SelectSeq(es, LAMBDA e : ScalarIsPatched(resource_type, e))
      arrs == SelectSeq(es, LAMBDA e : ArrayIsPatched(resource_type, e))
  IN  [i \in DOMAIN ids |-> Statement("create_id", ids[i])]
        \o [i \in DOMAIN arrs |-> Statement("create_id_arr", arrs[i])]

\* Lines 225-240: the body of onResourcesLoaded.
RenderRoutine(resources, resource_types) ==
  Concat([i \in DOMAIN resource_types |->
            StatementsOfType(resources, resource_types[i])])

\* Lines 213-223: one field per entry, initialised to the entry's value.
RenderFields(resources) ==
  LET keys == UNION {{KeyOf(resources[t][i]) : i \in DOMAIN resources[t]} :
                       t \in DOMAIN resources}
  IN  [k \in keys |->
         LET i == CHOOSE j \in DOMAIN resources[k[1]] :
                    KeyOf(resources[k[1]][j]) = k
         IN  resources[k[1]][i].value]

\* resources_by_type as CreateRJavaFiles builds it from a list of entries.
RECURSIVE GroupByType(_, _)
GroupByType(by_type, entries) ==
  IF entries = <<>> THEN by_type
  ELSE LET e == Head(entries)
           sofar == IF e.resource_type \in DOMAIN by_type
                      THEN by_type[e.resource_type] ELSE <<>>
       IN  GroupByType((e.resource_type :> Append(sofar, e)) @@ by_type,
                       Tail(entries))

InjectiveSeqsUpTo(S, n) ==
  {q \in SeqsUpTo(S, n) : \A i, j \in DOMAIN q : i # j => q[i] # q[j]}

InitGen ==
  /\ OthersIdleForGen
  /\ \E entries \in InjectiveSeqsUpTo(GenEntries, MaxEntries) :
       gResources = GroupByType(EmptyMap, entries)
  /\ gShared \in BOOLEAN
  /\ gFields = EmptyMap /\ gFinal = FALSE /\ gRoutine = <<>>
  /\ gPackageId = 0 /\ gIp = 0
  /\ gPc = "render"

\* Lines 208-248: the template is rendered.
Render ==
  /\ gPc = "render"
  /\ gFields' = RenderFields(gResources)
  /\ gFinal' = ~gShared
  /\ gRoutine' = IF gShared
                   THEN RenderRoutine(gResources, Sorted(DOMAIN gResources))
                   ELSE <<>>
  /\ gPc' = "generated"
  /\ UNCHANGED <<gResources, gShared, gPackageId, gIp>>
  /\ UNCHANGED notGen

\* Line 225: the rendered onResourcesLoaded(int packageId) is called.
OnResourcesLoaded ==
  /\ gPc = "generated" /\ gShared
  /\ gPackageId' \in PackageIds
  /\ gIp' = 1
  /\ gPc' = "running"
  /\ UNCHANGED <<gResources, gShared, gFields, gFinal, gRoutine>>
  /\ UNCHANGED notGen

\* Lines 229 and 234-236: one statement of the routine runs.
ExecStatement ==
  /\ gPc = "running" /\ gIp <= Len(gRoutine)
  /\ LET st == gRoutine[gIp]
         key == <<st.resource_type, st.name>>
         old == gFields[key]
     IN  gFields' =
           [gFields EXCEPT ![key] =
              IF st.kind = "create_id"
                THEN << PatchId(old[1], gPackageId) >>
                ELSE [i \in DOMAIN old |-> PatchIdArr(old[i], gPackageId)]]
  /\ gIp' = gIp + 1
  /\ UNCHANGED <<gResources, gShared, gFinal, gRoutine, gPackageId, gPc>>
  /\ UNCHANGED notGen

RoutineReturns ==
  /\ gPc = "running" /\ gIp > Len(gRoutine)
  /\ gPc' = "done"
  /\ UNCHANGED <<gResources, gShared, gFields, gFinal, gRoutine, gPackageId,
                 gIp>>
  /\ UNCHANGED notGen

NextGen ==
  \/ Render
  \/ OnResourcesLoaded
  \/ ExecStatement
  \/ RoutineReturns

SpecGen == InitGen /\ [][NextGen]_vars

\* The entries the generator was given.
GenEntriesGiven ==
  UNION {{gResources[t][i] : i \in DOMAIN gResources[t]} :
           t \in DOMAIN gResources}

StatementsFor(e) ==
  {i \in DOMAIN gRoutine :
     gRoutine[i].resource_type = e.resource_type /\ gRoutine[i].name = e.name}

\* C7 as stated: in shared mode the routine holds neither a statement nor a
\* loop for an entry whose resource_type is styleable.
C7_NoStyleableStatement ==
  (gShared /\ gPc # "render") =>
    \A i \in DOMAIN gRoutine : gRoutine[i].resource_type # "styleable"

\* C7 (amended): in shared mode the routine holds no statement of any kind
\* for a styleable entry of java_type int; a styleable entry of java_type
\* int[] gets exactly its loop, as every int[] entry does.
C7_StyleableScalarsNotPatched ==
  (gShared /\ gPc # "render") =>
    \A e \in GenEntriesGiven :
      e.resource_type = "styleable" =>
        IF e.java_type = "int[]"
          THEN \E i \in StatementsFor(e) :
                 /\ StatementsFor(e) = {i}
                 /\ gRoutine[i].kind = "create_id_arr"
          ELSE StatementsFor(e) = {}

C7_Witness ==
  /\ gShared /\ gPc = "generated"
  /\ \E e \in GenEntriesGiven, f \in GenEntriesGiven :
       /\ e.resource_type = "styleable" /\ e.java_type = "int"
       /\ f.resource_type = "styleable" /\ f.java_type = "int[]"
       /\ StatementsFor(f) # {}
  /\ \E i \in DOMAIN gRoutine : gRoutine[i].kind = "create_id"

\* C8: after onResourcesLoaded(p) has run, every word of every non-styleable
\* field and of every int[] field is p * 2^24 + (v mod 2^24), v being the
\* word's build-time value: its top byte is p and its low 24 bits are v's;
\* no field of the class has its low 24 bits changed.
C8_PatchedIds ==
  (gShared /\ gPc = "done") =>
    \A e \in GenEntriesGiven :
      LET now == gFields[KeyOf(e)]
      IN  /\ DOMAIN now = DOMAIN e.value
          /\ \A i \in DOMAIN now : now[i].lo = e.value[i].lo
          /\ (e.resource_type # "styleable" \/ e.java_type = "int[]") =>
               \A i \in DOMAIN now : now[i].hi = gPackageId

C8_Witness ==
  /\ gShared /\ gPc = "done" /\ gPackageId = 2
  /\ <<"id", "a">> \in DOMAIN gFields
  /\ gFields[<<"id", "a">>] = << Word(2, 65537) >>
  /\ <<"array", "c">> \in DOMAIN gFields
  /\ gFields[<<"array", "c">>] = << Word(2, 196609), Word(2, 65538) >>

(***************************************************************************)
(* CrunchDirectory, FilterCrunchStderr and DidCrunchFail.                  *)
(***************************************************************************)
\* A file name is the list of its parts between the dots: "btn.9.png" is
\* <<"btn", "9", "png">>.  name.endswith('.' + suffix), suffix a list of parts.
EndsWithDot(name, suffix) ==
  /\ Len(name) > Len(suffix)
  /\ SubSeq(name, Len(name) - Len(suffix) + 1, Len(name)) = suffix

FileNames == { <<"icon", "png">>, <<"btn", "9", "png">>, <<"note", "xml">> }

Sizes == 1..MaxSize

\* A line of the error stream is the list of its words, without its line end.
\* LibpngWarning stands for the text 'libpng warning: iCCP: Not recognizing
\* known sRGB profile that has been edited'.
LibpngWarning == "libpng warning: iCCP"

StderrLines ==
  { <<>>, <<"ERROR:", "bad.png">>, <<"res/icon.png:", LibpngWarning>> }

Returncodes == {0, 1}

\* stderr.splitlines(True): every line keeps its line end.
SplitLinesKeepEnds(stderr) == [i \in DOMAIN stderr |-> stderr[i] \o <<"\n">>]

\* Lines 287-288: the warning's text occurs in the line.
IsIgnoredLine(line) == \E k \in DOMAIN line : line[k] = LibpngWarning

\* Lines 281-291.
FilterCrunchStderr(stderr) ==
  Concat(SelectSeq(SplitLinesKeepEnds(stderr),
                   LAMBDA line : ~IsIgnoredLine(line)))

\* Line 300: returncode != 0 or stderr (a string is true when not empty).
DidCrunchFailByReturncode(returncode, stderr) == returncode # 0

DidCrunchFail(returncode, stderr) == returncode # 0 \/ stderr # <<>>

\* build_utils.CheckOutput(cmd, stderr_filter=..., fail_func=...): the error
\* stream is filtered and the verdict is fail_func's, on the filtered stream.
CheckOutputRaises(returncode, stderr) ==
  DidCrunchFail(returncode, FilterCrunchStderr(stderr))

\* Line 269 and line 271.
IsNinePatch(crunched) == EndsWithDot(crunched, <<"9", "png">>)

IsPng(crunched) == EndsWithDot(crunched, <<"png">>)

\* Line 277: the crunched image is replaced by the original.
ShouldRestoreWhenSmaller(original_size, crunched_size) ==
  original_size > crunched_size

ShouldRestore(original_size, crunched_size) == original_size < crunched_size

PartialMaps(D, R) == UNION {[S -> R] : S \in SUBSET D}

InitCrunch ==
  /\ OthersIdleForCrunch
  /\ cInput \in PartialMaps(FileNames, Sizes)
  /\ cCrunched = EmptyMap /\ cOutput = EmptyMap
  /\ cReturncode = 0 /\ cStderr = <<>> /\ cPending = {}
  /\ cPc = "start" /\ cErr = "none"

\* Lines 257-263: aapt crunch runs over input_dir and writes into output_dir;
\* CheckOutput raises when the run is declared failed.
AaptCrunch ==
  /\ cPc = "start"
  /\ \E returncode \in Returncodes,
        stderr \in SeqsUpTo(StderrLines, MaxStderrLines),
        written \in PartialMaps(DOMAIN cInput, Sizes) :
       /\ cReturncode' = returncode
       /\ cStderr' = stderr
       /\ cCrunched' = written
       /\ cOutput' = [f \in DOMAIN written |->
                        [size |-> written[f], bytes |-> "crunched"]]
       /\ IF CheckOutputRaises(returncode, stderr)
            THEN /\ cPc' = "error" /\ cErr' = "CalledProcessError"
                 /\ cPending' = {}
            ELSE /\ cPc' = "walk" /\ cErr' = "none"
                 /\ cPending' = DOMAIN written
  /\ UNCHANGED cInput
  /\ UNCHANGED notCrunch

\* Lines 267-278: the walk reaches one file of output_dir.
VisitCrunched ==
  /\ cPc = "walk"
  /\ \E crunched \in cPending :
       /\ cPending' = cPending \ {crunched}
       /\ IF IsNinePatch(crunched)
            THEN UNCHANGED <<cOutput, cPc, cErr>>
          ELSE IF ~IsPng(crunched)
            THEN /\ cPc' = "error" /\ cErr' = "Unexpected file"
                 /\ UNCHANGED cOutput
          ELSE /\ cOutput' =
                    IF ShouldRestore(cInput[crunched], cOutput[crunched].size)
                      THEN [cOutput EXCEPT ![crunched] =
                              [size |-> cInput[crunched],
                               bytes |-> "original"]]
                      ELSE cOutput
               /\ UNCHANGED <<cPc, cErr>>
  /\ UNCHANGED <<cInput, cCrunched, cReturncode, cStderr>>
  /\ UNCHANGED notCrunch

CrunchReturns ==
  /\ cPc = "walk" /\ cPending = {}
  /\ cPc' = "done"
  /\ UNCHANGED <<cInput, cCrunched, cOutput, cReturncode, cStderr, cPending,
                 cErr>>
  /\ UNCHANGED notCrunch

NextCrunch ==
  \/ AaptCrunch
  \/ VisitCrunched
  \/ CrunchReturns

SpecCrunch == InitCrunch /\ [][NextCrunch]_vars

\* C6: after CrunchDirectory has returned, a file of output_dir that is not
\* a 9-patch is no larger than its original: it holds the original's bytes
\* when aapt's output was larger, and aapt's output otherwise; a 9-patch
\* holds aapt's output whatever the sizes.
C6_NoSizeRegression ==
  cPc = "done" =>
    /\ DOMAIN cOutput = DOMAIN cCrunched
    /\ \A f \in DOMAIN cOutput :
         IF Len(f) >= 3 /\ f[Len(f)] = "png" /\ f[Len(f) - 1] = "9"
           THEN cOutput[f] = [size |-> cCrunched[f], bytes |-> "crunched"]
           ELSE /\ cOutput[f].size <= cInput[f]
                /\ IF cCrunched[f] > cInput[f]
                     THEN cOutput[f] =
                            [size |-> cInput[f], bytes |-> "original"]
                     ELSE cOutput[f] =
                            [size |-> cCrunched[f], bytes |-> "crunched"]

C6_Witness ==
  /\ cPc = "done"
  /\ DOMAIN cOutput = { <<"icon", "png">>, <<"btn", "9", "png">> }
  /\ cCrunched[<<"icon", "png">>] > cInput[<<"icon", "png">>]
  /\ cOutput[<<"icon", "png">>].bytes = "original"
  /\ cCrunched[<<"btn", "9", "png">>] > cInput[<<"btn", "9", "png">>]
  /\ cOutput[<<"btn", "9", "png">>].bytes = "crunched"

\* A line of the error stream that is not the libpng warning.
OtherLines(stderr) ==
  {i \in DOMAIN stderr : LibpngWarning \notin Range(stderr[i])}

\* C10: the crunch is declared failed exactly when the exit status is not 0
\* or the error stream holds a line that is not the libpng warning; a stream
\* of nothing but warning lines with exit status 0 is not a failure.
C10_CrunchVerdict ==
  cPc \in {"walk", "done", "error"} =>
    /\ cErr = "CalledProcessError" <=>
         (cReturncode # 0 \/ OtherLines(cStderr) # {})
    /\ cErr = "CalledProcessError" => cPc = "error"

C10_Witness ==
  /\ cPc = "error" /\ cErr = "CalledProcessError"
  /\ cReturncode = 0
  /\ Len(cStderr) = 2
  /\ OtherLines(cStderr) = {2}

(***************************************************************************)
(* ZipResources.                                                           *)
(***************************************************************************)
\* A file of a directory d is <<parent_dir, f>>: f in the directory
\* os.path.relpath(root, d), which is "." for d itself.
DirFiles == { <<".", "a.png">>, <<"x", "y.png">>, <<"x", "a.png">> }

\* Lines 311-314: the path of the file relative to d.
ArchivePath(parent_dir, f) ==
  IF parent_dir # "." THEN <<parent_dir, f>> ELSE <<f>>

\* Line 315: os.path.join(root, f), root below the directory at position d.
PathOf(d, parent_dir, f) == <<d, parent_dir, f>>

\* Line 316: files_to_zip[archive_path] = path.
RecordUnlessPresent(to_zip, archive_path, path) ==
  IF archive_path \in DOMAIN to_zip THEN to_zip
  ELSE (archive_path :> path) @@ to_zip

Record(to_zip, archive_path, path) == (archive_path :> path) @@ to_zip

\* build_utils.DoZip(files_to_zip.iteritems(), zip_path): one entry of the
\* archive per (archive_path, path) item it is given.
DoZip(to_zip) == {<<k, to_zip[k]>> : k \in DOMAIN to_zip}

InitZip ==
  /\ OthersIdleForZip
  /\ resource_dirs \in SeqsUpTo(SUBSET DirFiles, MaxDirs)
  /\ zIdx = 0 /\ zPending = {}
  /\ files_to_zip = EmptyMap /\ zArchive = {}
  /\ zPc = "walk"

\* Line 308-309: the loop moves to the next directory and walks it.
ZipNextDir ==
  /\ zPc = "walk" /\ zPending = {} /\ zIdx < Len(resource_dirs)
  /\ zIdx' = zIdx + 1
  /\ zPending' = resource_dirs[zIdx + 1]
  /\ UNCHANGED <<resource_dirs, files_to_zip, zArchive, zPc>>
  /\ UNCHANGED notZip

\* Lines 310-316: the walk reaches one file, in whatever order it lists them.
ZipVisitFile ==
  /\ zPc = "walk"
  /\ \E file \in zPending :
       /\ files_to_zip' =
            Record(files_to_zip, ArchivePath(file[1], file[2]),
                   PathOf(zIdx, file[1], file[2]))
       /\ zPending' = zPending \ {file}
  /\ UNCHANGED <<resource_dirs, zIdx, zArchive, zPc>>
  /\ UNCHANGED notZip

\* Line 317.
ZipWrite ==
  /\ zPc = "walk" /\ zPending = {} /\ zIdx = Len(resource_dirs)
  /\ zArchive' = DoZip(files_to_zip)
  /\ zPc' = "done"
  /\ UNCHANGED <<resource_dirs, zIdx, zPending, files_to_zip>>
  /\ UNCHANGED notZip

NextZip ==
  \/ ZipNextDir
  \/ ZipVisitFile
  \/ ZipWrite

SpecZip == InitZip /\ [][NextZip]_vars

\* The relative paths of the files of the directory at position d.
RelativePaths(d) ==
  {IF file[1] = "." THEN <<file[2]>> ELSE <<file[1], file[2]>> :
     file \in resource_dirs[d]}

LastLayerWith(rel) ==
  CHOOSE d \in DOMAIN resource_dirs :
    /\ rel \in RelativePaths(d)
    /\ \A later \in DOMAIN resource_dirs :
         later > d => rel \notin RelativePaths(later)

\* C5: the archive holds, for every relative path some directory of the list
\* contains, exactly one entry, and it is the file of the last directory of
\* the list that contains the path; it holds nothing else.  The walk visits
\* the files of a directory in every order.
C5_LastLayerWins ==
  zPc = "done" =>
    /\ {e[1] : e \in zArchive} =
         UNION {RelativePaths(d) : d \in DOMAIN resource_dirs}
    /\ \A e \in zArchive :
         LET d == LastLayerWith(e[1])
         IN  /\ e[2][1] = d
             /\ <<e[2][2], e[2][3]>> \in resource_dirs[d]
             /\ \A other \in zArchive : other[1] = e[1] => other = e

C5_Witness ==
  /\ zPc = "done"
  /\ Len(resource_dirs) = 2
  /\ <<"x", "y.png">> \in resource_dirs[1] \cap resource_dirs[2]
  /\ <<"x", "a.png">> \in resource_dirs[1] \ resource_dirs[2]
  /\ << <<"x", "y.png">>, <<2, "x", "y.png">> >> \in zArchive
  /\ << <<"x", "a.png">>, <<1, "x", "a.png">> >> \in zArchive

(***************************************************************************)
(* CombineZips.                                                            *)
(***************************************************************************)
ZipPaths == {"res.zip", "dep1.zip", "dep2.zip"}

EntryNames == {"res/values/a.xml", "res/drawable/b.png"}

\* zip_files.index(src_zip): the first position that holds src_zip, from 0.
Index(list, x) ==
  (CHOOSE i \in DOMAIN list :
     list[i] = x /\ \A j \in DOMAIN list : list[j] = x => i <= j) - 1

\* Lines 326-327: '%d/%s' % (zip_files.index(src_zip), name).
path_transform(name, src_zip) == <<Index(zip_files, src_zip), name>>

\* build_utils.MergeZips(output_path, zip_files, path_transform): the entries
\* of one input archive, each under its transformed path.
MergeZipsEntries(in_file, position) ==
  {[name |-> path_transform(name, in_file), from |-> <<position, name>>] :
     name \in kContents[in_file]}

InitCombine ==
  /\ OthersIdleForCombine
  /\ zip_files \in SeqsUpTo(ZipPaths, MaxZips)
  /\ kContents \in [ZipPaths -> SUBSET EntryNames]
  /\ kOutput = {}
  /\ kIdx = 1
  /\ kPc = "merge"

\* Line 329: MergeZips copies the entries of the next archive of the list.
MergeZipsStep ==
  /\ kPc = "merge" /\ kIdx <= Len(zip_files)
  /\ kOutput' = kOutput \cup MergeZipsEntries(zip_files[kIdx], kIdx - 1)
  /\ kIdx' = kIdx + 1
  /\ UNCHANGED <<zip_files, kContents, kPc>>
  /\ UNCHANGED notCombine

CombineReturns ==
  /\ kPc = "merge" /\ kIdx > Len(zip_files)
  /\ kPc' = "done"
  /\ UNCHANGED <<zip_files, kContents, kOutput, kIdx>>
  /\ UNCHANGED notCombine

NextCombine ==
  \/ MergeZipsStep
  \/ CombineReturns

SpecCombine == InitCombine /\ [][NextCombine]_vars

\* C9: every entry of the archive at position i of the list (from 0) is in
\* the output under <<i, name>>, and what is under <<i, name>> comes from
\* the archive at position i.
C9_PrefixedByPosition ==
  kPc = "done" =>
    /\ \A i \in DOMAIN zip_files :
         \A name \in kContents[zip_files[i]] :
           [name |-> <<i - 1, name>>, from |-> <<i - 1, name>>] \in kOutput
    /\ \A e \in kOutput : e.name[1] = e.from[1]

\* What the code does give: the claim's statement for a list whose paths are
\* pairwise different, where index() is the position.
C9_PrefixedByPositionIfDistinct ==
  (kPc = "done" /\ \A i, j \in DOMAIN zip_files :
                     i # j => zip_files[i] # zip_files[j]) =>
    /\ \A i \in DOMAIN zip_files :
         \A name \in kContents[zip_files[i]] :
           [name |-> <<i - 1, name>>, from |-> <<i - 1, name>>] \in kOutput
    /\ \A e \in kOutput : e.name[1] = e.from[1]

(***************************************************************************)
(* _OnStaleMd5: the stages of a pipeline run.  The external steps (the v14 *)
(* generator, the extraction, aapt, the file copies) either succeed or     *)
(* raise; a step that raises while writing a file may leave it written.    *)
(***************************************************************************)
\* A dependency zip is <<directory, basename>>.
DepZips == { <<"out", "d.zip">>, <<"lib", "d.zip">>, <<"out", "e.zip">> }

Basename(z) == z[2]

Layer(kind, idx) == [kind |-> kind, idx |-> idx]

\* The order in which _OnStaleMd5 runs its stages.
StageAfterZipBeforeCrunch(stage) ==
  CASE stage = "v14" -> "deps"
    [] stage = "deps" -> "aapt"
    [] stage = "aapt" -> "rjava"
    [] stage = "rjava" -> "zip"
    [] stage = "zip" -> "crunch"
    [] stage = "crunch" -> "combine"
    [] stage = "combine" -> "srcjar"
    [] stage = "srcjar" -> "rtxt"
    [] stage = "rtxt" -> "done"

StageAfter(stage) ==
  CASE stage = "v14" -> "deps"
    [] stage = "deps" -> "aapt"
    [] stage = "aapt" -> "rjava"
    [] stage = "rjava" -> "crunch"
    [] stage = "crunch" -> "zip"
    [] stage = "zip" -> "combine"
    [] stage = "combine" -> "srcjar"
    [] stage = "srcjar" -> "rtxt"
    [] stage = "rtxt" -> "done"

\* An exception leaves the with block of line 339: the run is over and
\* temp_dir is removed.
Raise(stage) ==
  /\ pPc' = "error" /\ pFailedAt' = stage /\ pTemp' = FALSE

Proceed(stage) ==
  /\ pPc' = StageAfter(stage) /\ pLoop' = 1
  /\ UNCHANGED <<pFailedAt, pTemp>>

\* A step that writes the declared output path out: written when the step
\* succeeds, written or not when it raises.
WritingStep(stage, out) ==
  \E ok \in BOOLEAN, touched \in BOOLEAN :
    IF ok
      THEN /\ touched
           /\ pWritten' = pWritten \cup {out}
           /\ Proceed(stage)
      ELSE /\ pWritten' = IF touched THEN pWritten \cup {out} ELSE pWritten
           /\ Raise(stage)
           /\ UNCHANGED pLoop

\* Line 450: zip_resource_dirs = input_resource_dirs + [v14_dir].
V14ThenInputs(n) ==
  << Layer("v14", 0) >> \o [i \in 1..n |-> Layer("input", i)]

InputsThenV14(n) ==
  [i \in 1..n |-> Layer("input", i)] \o << Layer("v14", 0) >>

\* The files a resource directory can hold, as <<parent_dir, f>> with f
\* split at its dots.
ResFiles == { <<"drawable", <<"icon", "png">> >> }

\* What the walk of line 309 can find in a directory of the run: anything
\* in an input directory and in a v14_dir the generator wrote to, nothing in
\* a v14_dir made at line 343 and left alone (line 352), and only .png files
\* in a crunch directory CrunchDirectory returned from (lines 271-272).
CanHold(layer) ==
  CASE layer.kind = "v14" /\ options.v14_skip -> { {} }
    [] layer.kind = "crunch" -> SUBSET {file \in ResFiles : IsPng(file[2])}
    [] OTHER -> SUBSET ResFiles

WalkResults(dirs) ==
  { found \in [DOMAIN dirs -> SUBSET ResFiles] :
      \A d \in DOMAIN dirs : found[d] \in CanHold(dirs[d]) }

\* Lines 309-316 for the directory at position d of the list.
RECURSIVE WalkDir(_, _, _)
WalkDir(to_zip, d, files) ==
  IF files = {} THEN to_zip
  ELSE LET file == CHOOSE x \in files : TRUE
       IN  WalkDir(Record(to_zip, ArchivePath(file[1], file[2]),
                          PathOf(d, file[1], file[2])),
                   d, files \ {file})

\* Lines 308-316: the directories of the list, from position d on.
RECURSIVE WalkDirs(_, _, _)
WalkDirs(to_zip, dirs, d) ==
  IF d > Len(dirs) THEN to_zip
  ELSE WalkDirs(WalkDir(to_zip, d, dirs[d]), dirs, d + 1)

\* Lines 426-440: the packages CreateRJavaFiles is called with.
PackagesToGenerate ==
  IF options.cur_package # "dummy.package"
       /\ options.cur_package \notin Range(options.extra_res_packages)
    THEN Append(options.extra_res_packages, options.cur_package)
    ELSE options.extra_res_packages

InitPipe ==
  /\ OthersIdleForPipe
  /\ options \in
       [v14_skip : BOOLEAN, include_all_resources : BOOLEAN,
        proguard_file : BOOLEAN, all_resources_zip_out : BOOLEAN,
        R_dir : BOOLEAN, r_text_out : BOOLEAN,
        extra_res_packages : { <<>>, <<"org.p">> },
        cur_package : {"dummy.package", "org.p"},
        resource_dirs : 0..MaxInputDirs,
        dependencies_res_zips : SeqsUpTo(DepZips, MaxDeps)]
  /\ pPc = "v14" /\ pLoop = 1 /\ pFailedAt = "none"
  /\ pWritten = {} /\ pTemp = TRUE
  /\ dep_subdirs = <<>> /\ zip_resource_dirs = <<>> /\ pCrunched = {}
  /\ pDirFiles = <<>> /\ pArchive = {}

\* Lines 352-356: GenerateV14Resources, once per input directory.
GenerateV14 ==
  /\ pPc = "v14"
  /\ IF options.v14_skip \/ pLoop > options.resource_dirs
       THEN Proceed("v14")
       ELSE \E ok \in BOOLEAN :
              IF ok THEN /\ pLoop' = pLoop + 1
                         /\ UNCHANGED <<pPc, pFailedAt, pTemp>>
                    ELSE Raise("v14") /\ UNCHANGED pLoop
  /\ UNCHANGED <<options, pWritten, dep_subdirs, zip_resource_dirs,
                 pCrunched, pDirFiles, pArchive>>
  /\ UNCHANGED notPipe

\* Lines 358-365: one dependency zip is extracted below deps_dir.
ExtractDeps ==
  /\ pPc = "deps"
  /\ IF pLoop > Len(options.dependencies_res_zips)
       THEN Proceed("deps") /\ UNCHANGED dep_subdirs
     ELSE LET subdir == Basename(options.dependencies_res_zips[pLoop])
          IN  IF subdir \in Range(dep_subdirs)
                THEN Raise("deps") /\ UNCHANGED <<pLoop, dep_subdirs>>
                ELSE \E ok \in BOOLEAN :
                       IF ok THEN /\ dep_subdirs' = Append(dep_subdirs, subdir)
                                  /\ pLoop' = pLoop + 1
                                  /\ UNCHANGED <<pPc, pFailedAt, pTemp>>
                             ELSE Raise("deps")
                                  /\ UNCHANGED <<pLoop, dep_subdirs>>
  /\ UNCHANGED <<options, pWritten, zip_resource_dirs, pCrunched,
                 pDirFiles, pArchive>>
  /\ UNCHANGED notPipe

\* Lines 372-423: aapt package; with -G it writes the proguard file.
AaptPackage ==
  /\ pPc = "aapt"
  /\ IF options.proguard_file
       THEN WritingStep("aapt", "proguard_file")
       ELSE \E ok \in BOOLEAN :
              /\ IF ok THEN Proceed("aapt")
                       ELSE Raise("aapt") /\ UNCHANGED pLoop
              /\ UNCHANGED pWritten
  /\ UNCHANGED <<options, dep_subdirs, zip_resource_dirs, pCrunched,
                 pDirFiles, pArchive>>
  /\ UNCHANGED notPipe

\* Lines 425-450: the R.java files are generated below temp_dir, and the
\* list of directories to zip starts as the inputs and v14_dir.
GenerateRJava ==
  /\ pPc = "rjava"
  /\ IF ~options.include_all_resources /\ PackagesToGenerate # <<>>
       THEN \E ok \in BOOLEAN :
              IF ok THEN Proceed("rjava")
                    ELSE Raise("rjava") /\ UNCHANGED pLoop
       ELSE Proceed("rjava")
  /\ zip_resource_dirs' =
       IF pPc' = "error" THEN zip_resource_dirs
       ELSE InputsThenV14(options.resource_dirs)
  /\ UNCHANGED <<options, pWritten, dep_subdirs, pCrunched, pDirFiles,
                 pArchive>>
  /\ UNCHANGED notPipe

\* Lines 457-461: one input directory is crunched into its crunch_dir.
CrunchInputs ==
  /\ pPc = "crunch"
  /\ IF pLoop > options.resource_dirs
       THEN Proceed("crunch") /\ UNCHANGED <<zip_resource_dirs, pCrunched>>
       ELSE /\ zip_resource_dirs' =
                 Append(zip_resource_dirs, Layer("crunch", pLoop))
            /\ \E ok \in BOOLEAN :
                 IF ok THEN /\ pCrunched' = pCrunched \cup {pLoop}
                            /\ pLoop' = pLoop + 1
                            /\ UNCHANGED <<pPc, pFailedAt, pTemp>>
                       ELSE Raise("crunch") /\ UNCHANGED <<pLoop, pCrunched>>
  /\ UNCHANGED <<options, pWritten, dep_subdirs, pDirFiles, pArchive>>
  /\ UNCHANGED notPipe

\* Line 463: ZipResources(zip_resource_dirs, options.resource_zip_out).
ZipLayers ==
  /\ pPc = "zip"
  /\ WritingStep("zip", "resource_zip_out")
  /\ IF pPc' = "error"
       THEN UNCHANGED <<pDirFiles, pArchive>>
       ELSE \E found \in WalkResults(zip_resource_dirs) :
              /\ pDirFiles' = found
              /\ pArchive' = DoZip(WalkDirs(EmptyMap, found, 1))
  /\ UNCHANGED <<options, dep_subdirs, zip_resource_dirs, pCrunched>>
  /\ UNCHANGED notPipe

\* Lines 465-467.
CombineAll ==
  /\ pPc = "combine"
  /\ IF options.all_resources_zip_out
       THEN WritingStep("combine", "all_resources_zip_out")
       ELSE Proceed("combine") /\ UNCHANGED pWritten
  /\ UNCHANGED <<options, dep_subdirs, zip_resource_dirs, pCrunched,
                 pDirFiles, pArchive>>
  /\ UNCHANGED notPipe

\* Lines 469-473: the generated sources go to R_dir or to the srcjar.
PublishSources ==
  /\ pPc = "srcjar"
  /\ IF options.R_dir
       THEN WritingStep("srcjar", "R_dir")
       ELSE WritingStep("srcjar", "srcjar_out")
  /\ UNCHANGED <<options, dep_subdirs, zip_resource_dirs, pCrunched,
                 pDirFiles, pArchive>>
  /\ UNCHANGED notPipe

\* Lines 475-476, and the end of the with block of line 339.
CopyRTxt ==
  /\ pPc = "rtxt"
  /\ IF options.r_text_out
       THEN \E ok \in BOOLEAN, touched \in BOOLEAN :
              IF ok
                THEN /\ touched
                     /\ pWritten' = pWritten \cup {"r_text_out"}
                     /\ pPc' = StageAfter("rtxt") /\ pTemp' = FALSE
                     /\ UNCHANGED pFailedAt
                ELSE /\ pWritten' = IF touched
                                      THEN pWritten \cup {"r_text_out"}
                                      ELSE pWritten
                     /\ Raise("rtxt")
       ELSE /\ pPc' = StageAfter("rtxt") /\ pTemp' = FALSE
            /\ UNCHANGED <<pFailedAt, pWritten>>
  /\ UNCHANGED <<options, pLoop, dep_subdirs, zip_resource_dirs, pCrunched,
                 pDirFiles, pArchive>>
  /\ UNCHANGED notPipe

NextPipe ==
  \/ GenerateV14
  \/ ExtractDeps
  \/ AaptPackage
  \/ GenerateRJava
  \/ CrunchInputs
  \/ ZipLayers
  \/ CombineAll
  \/ PublishSources
  \/ CopyRTxt

SpecPipe == InitPipe /\ [][NextPipe]_vars

\* The stages in the order of the source text, and the stage that writes
\* each declared output path.
StageOrder ==
  << "v14", "deps", "aapt", "rjava", "crunch", "zip", "combine", "srcjar",
     "rtxt" >>

Rank(stage) == CHOOSE i \in DOMAIN StageOrder : StageOrder[i] = stage

WriterOf(out) ==
  CASE out = "proguard_file" -> "aapt"
    [] out = "resource_zip_out" -> "zip"
    [] out = "all_resources_zip_out" -> "combine"
    [] out \in {"R_dir", "srcjar_out"} -> "srcjar"
    [] out = "r_text_out" -> "rtxt"

\* C4 as stated: when the run ends in an error, none of the declared output
\* paths has been written by it.
C4_NoOutputOnError ==
  pPc = "error" => pWritten = {}

\* C4 (amended): an error ends the run at its stage and temp_dir is removed,
\* so no output path that a later stage writes has been written; the output
\* paths of the failing stage and of the stages before it may be in place.
C4_NoLaterOutputOnError ==
  pFailedAt # "none" =>
    /\ pPc = "error"
    /\ ~pTemp
    /\ \A out \in pWritten : Rank(WriterOf(out)) <= Rank(pFailedAt)
    /\ Rank(pFailedAt) < Rank("aapt") => pWritten = {}

C4_Witness ==
  /\ pPc = "error" /\ pFailedAt = "crunch"
  /\ pWritten = {"proguard_file"}
  /\ ~pTemp
  /\ pCrunched = {1}

\* ZipResources (line 463) has returned in this run.
ZipResourcesReturned ==
  \/ pPc \in {"combine", "srcjar", "rtxt", "done"}
  \/ pPc = "error" /\ Rank(pFailedAt) > Rank("zip")

\* For n input directories: the inputs in their order, v14_dir, then the
\* crunch directory of each input in input order.
ExpectedLayers(n) ==
  [d \in 1..(2 * n + 1) |->
     IF d <= n THEN Layer("input", d)
     ELSE IF d = n + 1 THEN Layer("v14", 0)
     ELSE Layer("crunch", d - n - 1)]

\* The positions of the list whose directory is of this kind and holds file.
Holders(kind, file) ==
  {d \in DOMAIN pDirFiles :
     zip_resource_dirs[d].kind = kind /\ file \in pDirFiles[d]}

\* Of these positions, the one whose directory comes last in input order.
LastOf(positions) ==
  CHOOSE d \in positions :
    \A other \in positions :
      zip_resource_dirs[other].idx <= zip_resource_dirs[d].idx

\* The directory the archive must take file from: a crunch directory if one
\* holds it, else v14_dir if it holds it, else an input directory.
Provider(file) ==
  IF Holders("crunch", file) # {} THEN LastOf(Holders("crunch", file))
  ELSE IF Holders("v14", file) # {} THEN LastOf(Holders("v14", file))
  ELSE LastOf(Holders("input", file))

\* C11: the list ZipResources is given is the input directories in their
\* order, then v14_dir, then one crunch directory per input directory in
\* input order, and CrunchDirectory has returned for every one of them
\* before ZipResources runs; so the resource archive takes a file from a
\* crunch directory when one holds its relative path, else from v14_dir,
\* else from an input directory, and holds one entry per relative path.
C11_LayersInPriorityOrder ==
  (pPc = "zip" \/ ZipResourcesReturned) =>
    /\ zip_resource_dirs = ExpectedLayers(options.resource_dirs)
    /\ pCrunched = 1..options.resource_dirs
    /\ ZipResourcesReturned =>
         /\ DOMAIN pDirFiles = DOMAIN zip_resource_dirs
         /\ \A file \in ResFiles :
              LET entries ==
                    {e \in pArchive : e[1] = ArchivePath(file[1], file[2])}
              IN  IF \A d \in DOMAIN pDirFiles : file \notin pDirFiles[d]
                    THEN entries = {}
                    ELSE entries =
                           { << ArchivePath(file[1], file[2]),
                                PathOf(Provider(file), file[1], file[2]) >> }
         /\ \A e \in pArchive :
              \E file \in ResFiles : e[1] = ArchivePath(file[1], file[2])

\* Two input directories, v14_dir and the crunch directory of the first
\* input all hold drawable/icon.png: the archive has the crunched one.
C11_Witness ==
  LET icon == <<"drawable", <<"icon", "png">> >>
  IN  /\ pPc = "done"
      /\ options.resource_dirs = 2 /\ ~options.v14_skip
      /\ zip_resource_dirs =
           << Layer("input", 1), Layer("input", 2), Layer("v14", 0),
              Layer("crunch", 1), Layer("crunch", 2) >>
      /\ pCrunched = {1, 2}
      /\ pDirFiles = << {icon}, {icon}, {icon}, {icon}, {} >>
      /\ pArchive =
           { << <<"drawable", <<"icon", "png">> >>,
                <<4, "drawable", <<"icon", "png">> >> >> }

Init ==
  \/ InitMerge
  \/ InitGen
  \/ InitCrunch
  \/ InitZip
  \/ InitCombine
  \/ InitPipe

Next ==
  \/ NextMerge
  \/ NextGen
  \/ NextCrunch
  \/ NextZip
  \/ NextCombine
  \/ NextPipe

Spec == Init /\ [][Next]_vars
====
